---- MODULE Spec2Model ----
(***************************************************************************)
(* Model of src/evdev/input.c, the C extension module of python-evdev:     *)
(* the bitmask probe, the event readers, the capability walk, the device   *)
(* identity and control ioctls, and the force-feedback effect calls.       *)
(*                                                                         *)
(* The module keeps no state of its own.  The state of the model is the    *)
(* kernel device behind the descriptor (dev, effects), the build's choice  *)
(* of char signedness (charSigned) and the record of the last call made    *)
(* into the module (last): its arguments, the system calls it issued with  *)
(* what each returned, the test_bit probes it made, and what it returned   *)
(* to Python.                                                              *)
(***************************************************************************)
EXTENDS Integers, Sequences, FiniteSets, TLC

VARIABLES dev, effects, charSigned, last

vars == <<dev, effects, charSigned, last>>

---------------------------------------------------------------------------
(* Constants of <linux/input.h> as the source uses them.                   *)

EV_KEY == 1
EV_ABS == 3
EV_SW == 5
EV_LED == 17
EV_SND == 18
EV_FF == 21
EV_MAX == 31
KEY_MAX == 767
LED_MAX == 15
SW_MAX == 16
SND_MAX == 7
FF_GAIN == 96
FF_AUTOCENTER == 97
MAX_NAME_SIZE == 256

(* struct input_event event[64] and sizeof(struct input_event) on LP64.    *)
NEvents == 64
event_size == 24

(* errno values the kernel reports in the model.                           *)
EAGAIN == 11
ENODEV == 19
EINVAL == 22

---------------------------------------------------------------------------
(* Bounds of the model.                                                    *)

\* longest run of whole records pending on the descriptor
MaxQueue == 2
\* number of effect slots of the device (ids 0 .. MaxEffects-1)
MaxEffects == 2
\* longest buffer handed to the bitmask probe when it is checked alone
MaxProbeLen == 2

---------------------------------------------------------------------------
(* C integer arithmetic.                                                   *)

Min(a, b) == IF a <= b THEN a ELSE b

\* a & b on two's complement ints (\div is floor division, so the bits of
\* a negative number are those of its two's complement representation)
RECURSIVE BitAnd(_, _)
BitAnd(a, b) ==
    IF a = 0 \/ b = 0 THEN 0
    ELSE IF a = -1 THEN b
    ELSE IF b = -1 THEN a
    ELSE (a % 2) * (b % 2) + 2 * BitAnd(a \div 2, b \div 2)

\* 1 << k
Shl1(k) == 2 ^ k

\* assignment to a __u16 field
U16(x) == x % 65536

\* assignment to a __s16 field
S16(x) == ((x + 32768) % 65536) - 32768

\* a byte of memory read through a (const char *): sign-extended where the
\* build's plain char is signed
CharToInt(byte) == IF charSigned /\ byte >= 128 THEN byte - 256 ELSE byte

\* memset(buf, 0, n)
Zeros(n) == [i \in 1..n |-> 0]

\* A C array together with the byte of the stack frame that follows it:
\* what a pointer to the array can reach when indexed one past its end.
Region(array, adjacent) == array \o <<adjacent>>

---------------------------------------------------------------------------
(* test_bit, lines 31-33.                                                  *)

\* the probe with the bits of a byte counted from its top bit
test_bit_bigendian(bitmask, bit) ==
    BitAnd(CharToInt(bitmask[bit \div 8 + 1]), Shl1(7 - (bit % 8)))

\* return bitmask[bit/8] & (1 << (bit % 8));
test_bit(bitmask, bit) ==
    BitAnd(CharToInt(bitmask[bit \div 8 + 1]), Shl1(bit % 8))

---------------------------------------------------------------------------
(* The Python side of a call: the argument tuple and what comes back.      *)

PyInt(v) == [t |-> "int", v |-> v]
PyStr == [t |-> "str", v |-> 0]

\* PyArg_ParseTuple(args, "i...i") with n conversions: 1 when the tuple
\* holds exactly n integers, 0 (TypeError set) otherwise
PyArg_ParseTuple(args, n) ==
    IF Len(args) = n /\ \A i \in 1..n : args[i].t = "int" THEN 1 ELSE 0

\* PyArg_ParseTuple(args, "s#"), line 134
PyArg_ParseBuffer(args) ==
    IF Len(args) = 1 /\ args[1].t = "str" THEN 1 ELSE 0

\* the descriptor a well-formed call passes
Fd == PyInt(3)

\* argument tuples no format string of the module accepts
Malformed == {<<>>, <<PyStr, PyStr, PyStr>>}

\* a returned object, no exception pending
Value(v) == [kind |-> "value", exc |-> "none", errno |-> 0, val |-> v]

\* return NULL with the exception `exc` pending
Null(exc, errno) == [kind |-> "NULL", exc |-> exc, errno |-> errno, val |-> <<>>]

\* PyErr_SetFromErrno(PyExc_IOError); return NULL;
IOErrorFromErrno(errno) == Null("IOError", errno)

\* return NULL after PyArg_ParseTuple failed
ParseFailed == Null("TypeError", 0)

\* Py_None
None == "None"

\* one system call of a handler: the request, what was passed, what the
\* kernel answered (ret, errno) and the data it stored for the caller
Syscall(req, arg, ret, errno, out) ==
    [req |-> req, arg |-> arg, ret |-> ret, errno |-> errno, out |-> out]

NoPrev == [set |-> FALSE, fault |-> "none", ret |-> Null("none", 0)]

\* the record of one call into the module
Call(op, args, parsed, calls, probes, ret) ==
    [op |-> op, args |-> args, parsed |-> parsed, calls |-> calls,
     probes |-> probes, ret |-> ret, fault |-> "none", prev |-> NoPrev]

\* one use of test_bit over a buffer of `size` bytes, up to bit index `hi`
Probe(buf, size, hi) == [buf |-> buf, size |-> size, hi |-> hi]

---------------------------------------------------------------------------
(* Event records, lines 52 and 95 (struct input_event).                    *)

InputEvent(sec, usec, type, code, value) ==
    [sec |-> sec, usec |-> usec, type |-> type, code |-> code, value |-> value]

\* records the kernel delivers: boundary values of every field
Events ==
    { InputEvent(1, 999999, EV_KEY, 30, 2147483647),
      InputEvent(2, 0, 65535, 65535, -1) }

\* what an uninitialised struct input_event on the stack may hold
StackEvents ==
    { InputEvent(0, 0, 0, 0, 0), InputEvent(-7, 13, 4660, 22136, -559038737) }

RECURSIVE SeqsUpTo(_, _)
SeqsUpTo(S, n) ==
    IF n = 0 THEN {<<>>}
    ELSE LET shorter == SeqsUpTo(S, n - 1)
         IN shorter \cup {Append(q, e) : q \in {r \in shorter : Len(r) = n - 1}, e \in S}

\* bytes of an incomplete record that may trail the whole ones
StrayBytes == {0, 3}

\* What is pending on the descriptor when read(2) is called: whole records
\* followed by `stray` bytes, or a failure (fail = TRUE: read returns -1).
Pending ==
    { [fail |-> f, recs |-> q, stray |-> s] :
        f \in BOOLEAN, q \in SeqsUpTo(Events, MaxQueue), s \in StrayBytes }

\* read(fd, buf, count): the byte count returned
ReadCount(p, count) ==
    IF p.fail THEN -1 ELSE Min(count, Len(p.recs) * event_size + p.stray)

\* Slot i (from 1) of a buffer of struct input_event after read() stored
\* nread bytes in it: a record the kernel wrote whole, else what the stack
\* held (a record written in part is as undefined as one not written).
BufferSlot(p, nread, stack, i) ==
    IF nread >= i * event_size THEN p.recs[i] ELSE stack

\* Py_BuildValue("OOhhO", sec, usec, event.type, event.code, val): the
\* __u16 fields are promoted to int and converted by PyLong_FromLong
PyEventTuple(ev) == <<ev.sec, ev.usec, ev.type, ev.code, ev.value>>

ReadCall(p, count) ==
    LET n == ReadCount(p, count)
    IN Syscall("read", count, n, IF n < 0 THEN EAGAIN ELSE 0,
               IF n < 0 THEN <<>> ELSE p.recs)

\* device_read, lines 48-76.  PyArg_ParseTuple returns 0 on failure and the
\* test on line 55 is "< 0", so the early return is never taken.
device_read_impl(args, p, stack) ==
    LET parsed == PyArg_ParseTuple(args, 1)
        n == ReadCount(p, event_size)
        event == BufferSlot(p, n, stack, 1)
        calls == <<ReadCall(p, event_size)>>
    IN IF parsed < 0 THEN Call("device_read", args, FALSE, <<>>, {}, ParseFailed)
       ELSE IF n < 0
            THEN Call("device_read", args, parsed # 0, calls, {}, IOErrorFromErrno(EAGAIN))
            ELSE Call("device_read", args, parsed # 0, calls, {},
                      [Value(PyEventTuple(event)) EXCEPT
                          !.exc = IF parsed = 0 THEN "TypeError" ELSE "none"])

\* nread/event_size on line 106, rounded up instead of down
WholeRecordsRoundedUp(nread) == (nread + event_size - 1) \div event_size

\* nread/event_size on line 106
WholeRecords(nread) == nread \div event_size

\* the loop of lines 106-118
RECURSIVE DecodeLoop(_, _, _, _, _)
DecodeLoop(p, nread, stack, i, event_list) ==
    IF ~(i < WholeRecords(nread)) THEN event_list
    ELSE DecodeLoop(p, nread, stack, i + 1,
                    Append(event_list, PyEventTuple(BufferSlot(p, nread, stack, i + 1))))

\* device_read_many, lines 80-121
device_read_many_impl(args, p, stack) ==
    LET ret == PyArg_ParseTuple(args, 1)
        nread == ReadCount(p, event_size * NEvents)
        calls == <<ReadCall(p, event_size * NEvents)>>
    IN IF ret = 0 THEN Call("device_read_many", args, FALSE, <<>>, {}, ParseFailed)
       ELSE IF nread < 0
            THEN Call("device_read_many", args, TRUE, calls, {}, IOErrorFromErrno(EAGAIN))
            ELSE Call("device_read_many", args, TRUE, calls, {},
                      Value(DecodeLoop(p, nread, stack, 0, <<>>)))

\* event_unpack, lines 126-140: copies the bytes and returns None
event_unpack_impl(args) ==
    IF PyArg_ParseBuffer(args) = 0
    THEN Call("event_unpack", args, FALSE, <<>>, {}, ParseFailed)
    ELSE Call("event_unpack", args, TRUE, <<>>, {}, Value(None))

---------------------------------------------------------------------------
(* The kernel device behind the descriptor.                                *)

AbsInfo(value, minimum, maximum, fuzz, flat, resolution) ==
    [value |-> value, minimum |-> minimum, maximum |-> maximum,
     fuzz |-> fuzz, flat |-> flat, resolution |-> resolution]

\* a keyboard: EV_SYN, EV_KEY and EV_LED, no physical path
Keyboard ==
    [ evbit |-> {0, EV_KEY, EV_LED},
      codes |-> (EV_KEY :> {1, 30, 743}) @@ (EV_LED :> {0, 1}),
      abs |-> <<>>,
      id |-> <<17, 1, 1, 43841>>,
      name |-> <<107, 98, 100>>,
      phys |-> <<>>,
      led |-> {1}, sw |-> {}, snd |-> {},
      version |-> 65537, rep |-> <<250, 33>>, n_effects |-> 0 ]

\* a joystick: only EV_KEY and EV_ABS, two axes
Joystick ==
    [ evbit |-> {EV_KEY, EV_ABS},
      codes |-> (EV_KEY :> {288, 289}) @@ (EV_ABS :> {0, 1}),
      abs |-> (0 :> AbsInfo(0, -32768, 32767, 16, 128, 0))
              @@ (1 :> AbsInfo(0, 0, 255, 0, 15, 4)),
      id |-> <<3, 1133, 49684, 273>>,
      name |-> <<106, 115>>,
      phys |-> <<117, 115, 98, 45, 49>>,
      led |-> {}, sw |-> {0, 15}, snd |-> {6},
      version |-> 65537, rep |-> <<0, 0>>, n_effects |-> 2 ]

Devices == {Keyboard, Joystick}

\* live positions an axis may report
AxisValues == {0, 77}

\* bytes the stack may hold next to a local array
StackBytes == {0, 64}

\* byte j (from 0) of a kernel bitmap
RECURSIVE BitmapByte(_, _, _)
BitmapByte(S, j, b) ==
    IF b > 7 THEN 0
    ELSE (IF 8 * j + b \in S THEN Shl1(b) ELSE 0) + BitmapByte(S, j, b + 1)

\* the first n bytes of a kernel bitmap, as an ioctl stores them into a
\* caller's array of n bytes
BitsToUser(S, n) == [j \in 1..n |-> BitmapByte(S, j - 1, 0)]

\* ioctl(fd, EVIOCGBIT(ev, len), buf) into an array of n bytes: the kernel
\* knows the types of d.codes (and type 0, the type bitmap itself)
KernelGBit(d, ev, n, failing) ==
    IF failing \/ (ev # 0 /\ ev \notin DOMAIN d.codes)
    THEN [ret |-> -1, errno |-> IF failing THEN ENODEV ELSE EINVAL, out |-> Zeros(n)]
    ELSE [ret |-> n, errno |-> 0,
          out |-> BitsToUser(IF ev = 0 THEN d.evbit ELSE d.codes[ev], n)]

Zeroed == AbsInfo(0, 0, 0, 0, 0, 0)

\* ioctl(fd, EVIOCGABS(code), &absinfo)
KernelGAbs(d, code, value, failing) ==
    IF failing \/ code \notin DOMAIN d.abs
    THEN [ret |-> -1, errno |-> IF failing THEN ENODEV ELSE EINVAL, out |-> Zeroed]
    ELSE [ret |-> 0, errno |-> 0, out |-> [d.abs[code] EXCEPT !.value = value]]

---------------------------------------------------------------------------
(* ioctl_capabilities, lines 144-228.                                      *)

\* Py_BuildValue("(iiiiii)", ...) of lines 189-195
PyAbsInfo(a) == <<a.value, a.minimum, a.maximum, a.fuzz, a.flat, a.resolution>>

\* faults the kernel may answer a capability query with
CapFaults == {"none", "EVIOCGBIT0", "EVIOCGBIT", "EVIOCGABS"}

\* the values 0, 1, ..., n-1 a for loop runs its index through
LoopIndices(n) == [i \in 1..n |-> i - 1]

\* lines 182-183: for (ev_code = 0; ev_code < KEY_MAX; ev_code++)
\* if (test_bit(code_bits, ev_code)): the codes that pass, in loop order
CodeIndices == LoopIndices(KEY_MAX)

SetCodes(mem) == SelectSeq(CodeIndices, LAMBDA ev_code : test_bit(mem, ev_code) # 0)

\* lines 185-209: the entry appended for one code, with the EVIOCGABS call
\* made for it when the type is EV_ABS (absinfo is zeroed first and the
\* return value of the ioctl is dropped)
CodeEntry(d, fault, value, ev_type, ev_code) ==
    IF ev_type = EV_ABS
    THEN LET k == KernelGAbs(d, ev_code, value, fault = "EVIOCGABS")
         IN [item |-> <<ev_code, PyAbsInfo(k.out)>>,
             calls |-> <<Syscall("EVIOCGABS", ev_code, k.ret, k.errno, k.out)>>]
    ELSE [item |-> ev_code, calls |-> <<>>]

RECURSIVE Flatten(_, _)
Flatten(seqs, i) == IF i > Len(seqs) THEN <<>> ELSE seqs[i] \o Flatten(seqs, i + 1)

\* lines 182-213: the inner loop over the codes of one type
CodeLoop(d, fault, value, ev_type, mem) ==
    LET codes == SetCodes(mem)
        entries == [i \in 1..Len(codes) |-> CodeEntry(d, fault, value, ev_type, codes[i])]
    IN [list |-> [i \in 1..Len(codes) |-> entries[i].item],
        calls |-> Flatten([i \in 1..Len(codes) |-> entries[i].calls], 1)]

\* lines 176-219: one supported type: its code bitmask is fetched into
\* code_bits[KEY_MAX/8] (return value ignored) and scanned to KEY_MAX
TypeStep(d, fault, value, code_adj, ev_type) ==
    LET k == KernelGBit(d, ev_type, KEY_MAX \div 8, fault = "EVIOCGBIT")
        scan == CodeLoop(d, fault, value, ev_type, Region(k.out, code_adj))
    IN [eventcodes |-> scan.list,
        calls |-> <<Syscall("EVIOCGBIT", <<ev_type, KEY_MAX>>, k.ret, k.errno, k.out)>>
                  \o scan.calls]

\* lines 173-221: for (ev_type = ...; ev_type < EV_MAX; ev_type++)
RECURSIVE TypeLoop(_, _, _, _, _, _, _)
TypeLoop(d, fault, value, ev_mem, code_adj, ev_type, acc) ==
    IF ~(ev_type < EV_MAX) THEN acc
    ELSE IF test_bit(ev_mem, ev_type) = 0
         THEN TypeLoop(d, fault, value, ev_mem, code_adj, ev_type + 1, acc)
         ELSE LET t == TypeStep(d, fault, value, code_adj, ev_type)
              IN TypeLoop(d, fault, value, ev_mem, code_adj, ev_type + 1,
                          [capabilities |-> (ev_type :> t.eventcodes) @@ acc.capabilities,
                           calls |-> acc.calls \o t.calls,
                           probes |-> acc.probes \cup
                               {Probe("code_bits", KEY_MAX \div 8, KEY_MAX - 1)}])

ioctl_capabilities_impl(args, d, fault, value, ev_adj, code_adj) ==
    LET ret == PyArg_ParseTuple(args, 1)
        k == KernelGBit(d, 0, EV_MAX \div 8, fault = "EVIOCGBIT0")
        first == Syscall("EVIOCGBIT", <<0, EV_MAX>>, k.ret, k.errno, k.out)
        walk == TypeLoop(d, fault, value, Region(k.out, ev_adj), code_adj, 0,
                         [capabilities |-> <<>>, calls |-> <<first>>,
                          probes |-> {Probe("ev_bits", EV_MAX \div 8, EV_MAX - 1)}])
    IN IF ret = 0
       THEN Call("ioctl_capabilities", args, FALSE, <<>>, {}, ParseFailed)
       ELSE IF k.ret < 0
            THEN Call("ioctl_capabilities", args, TRUE, <<first>>, {},
                      IOErrorFromErrno(k.errno))
            ELSE Call("ioctl_capabilities", args, TRUE, walk.calls, walk.probes,
                      Value(walk.capabilities))

---------------------------------------------------------------------------
(* ioctl_devinfo, lines 232-258.                                           *)

\* char name[MAX_NAME_SIZE]; (line 238, not initialised: whatever the
\* stack holds, here the character 'U')
NameInit == [i \in 1..MAX_NAME_SIZE |-> 85]

\* char phys[MAX_NAME_SIZE], left as the stack holds it
PhysUninitialised == [i \in 1..MAX_NAME_SIZE |-> 85]

\* char phys[MAX_NAME_SIZE] = {0}; (line 239)
PhysInit == Zeros(MAX_NAME_SIZE)

\* the kernel storing a string for EVIOCGNAME/EVIOCGPHYS: the characters
\* and the terminating NUL, cut to the length the caller gave
StrToUser(str, buf) ==
    LET n == Min(Len(str) + 1, Len(buf))
        src == Append(str, 0)
    IN [i \in 1..Len(buf) |-> IF i <= n THEN src[i] ELSE buf[i]]

\* the "s" conversion of Py_BuildValue: the characters from position i up
\* to the first NUL (or the end of the array)
CString(buf, i) ==
    LET nuls == {j \in i..Len(buf) : buf[j] = 0}
        end == IF nuls = {} THEN Len(buf) + 1
               ELSE CHOOSE j \in nuls : \A k \in nuls : j <= k
    IN SubSeq(buf, i, end - 1)

DevinfoFaults == {"none", "EVIOCGID", "EVIOCGNAME", "EVIOCGPHYS"}

\* ioctl(fd, EVIOCGPHYS(len), phys): ENOENT for a device without a path
KernelGPhys(d, buf, failing) ==
    IF failing \/ d.phys = <<>>
    THEN [ret |-> -1, errno |-> IF failing THEN ENODEV ELSE 2, out |-> buf]
    ELSE [ret |-> Min(Len(d.phys) + 1, Len(buf)), errno |-> 0, out |-> StrToUser(d.phys, buf)]

ioctl_devinfo_impl(args, d, fault) ==
    LET ret == PyArg_ParseTuple(args, 1)
        idfail == fault = "EVIOCGID"
        namefail == fault = "EVIOCGNAME"
        iid == IF idfail THEN <<0, 0, 0, 0>> ELSE d.id
        name == IF namefail THEN NameInit ELSE StrToUser(d.name, NameInit)
        p == KernelGPhys(d, PhysInit, fault = "EVIOCGPHYS")
        c1 == Syscall("EVIOCGID", 0, IF idfail THEN -1 ELSE 0,
                      IF idfail THEN ENODEV ELSE 0, iid)
        c2 == Syscall("EVIOCGNAME", MAX_NAME_SIZE,
                      IF namefail THEN -1 ELSE Len(d.name) + 1,
                      IF namefail THEN ENODEV ELSE 0,
                      IF namefail THEN <<>> ELSE CString(name, 1))
        c3 == Syscall("EVIOCGPHYS", MAX_NAME_SIZE, p.ret, p.errno, CString(p.out, 1))
    IN IF ret = 0 THEN Call("ioctl_devinfo", args, FALSE, <<>>, {}, ParseFailed)
       ELSE IF c1.ret < 0
            THEN Call("ioctl_devinfo", args, TRUE, <<c1>>, {}, IOErrorFromErrno(c1.errno))
       ELSE IF c2.ret < 0
            THEN Call("ioctl_devinfo", args, TRUE, <<c1, c2>>, {}, IOErrorFromErrno(c2.errno))
       ELSE Call("ioctl_devinfo", args, TRUE, <<c1, c2, c3>>, {},
                 Value(<<iid[1], iid[2], iid[3], iid[4], CString(name, 1), CString(p.out, 1)>>))

---------------------------------------------------------------------------
(* Autorepeat, protocol version, grab, effect count: lines 261-332.        *)

\* what an uninitialised int on the stack may hold
StackInts == {0, -559038737}

\* ioctl_EVIOCGREP, lines 261-271: the return value of ioctl is dropped
ioctl_EVIOCGREP_impl(args, d, failing) ==
    LET ret == PyArg_ParseTuple(args, 1)
        rep == IF failing THEN <<0, 0>> ELSE d.rep
        c == Syscall("EVIOCGREP", 0, IF failing THEN -1 ELSE 0,
                     IF failing THEN ENODEV ELSE 0, rep)
    IN IF ret = 0 THEN Call("ioctl_EVIOCGREP", args, FALSE, <<>>, {}, ParseFailed)
       ELSE Call("ioctl_EVIOCGREP", args, TRUE, <<c>>, {}, Value(<<rep[1], rep[2]>>))

\* ioctl_EVIOCSREP, lines 274-285: returns the ioctl's return value
ioctl_EVIOCSREP_impl(args, failing) ==
    LET parsed == PyArg_ParseTuple(args, 3)
        ret == IF failing THEN -1 ELSE 0
        c == Syscall("EVIOCSREP", <<args[2].v, args[3].v>>, ret,
                     IF failing THEN ENODEV ELSE 0, <<>>)
    IN IF parsed = 0 THEN Call("ioctl_EVIOCSREP", args, FALSE, <<>>, {}, ParseFailed)
       ELSE Call("ioctl_EVIOCSREP", args, TRUE, <<c>>, {}, Value(ret))

\* ioctl_EVIOCGVERSION, lines 288-297: res is not initialised and the
\* return value of ioctl is not looked at
ioctl_EVIOCGVERSION_impl(args, d, failing, stack) ==
    LET parsed == PyArg_ParseTuple(args, 1)
        res == IF failing THEN stack ELSE d.version
        c == Syscall("EVIOCGVERSION", 0, IF failing THEN -1 ELSE 0,
                     IF failing THEN ENODEV ELSE 0, res)
    IN IF parsed = 0 THEN Call("ioctl_EVIOCGVERSION", args, FALSE, <<>>, {}, ParseFailed)
       ELSE Call("ioctl_EVIOCGVERSION", args, TRUE, <<c>>, {}, Value(res))

\* ioctl_EVIOCGRAB, lines 300-315
ioctl_EVIOCGRAB_impl(args, failing) ==
    LET parsed == PyArg_ParseTuple(args, 2)
        ret == IF failing THEN -1 ELSE 0
        c == Syscall("EVIOCGRAB", args[2].v, ret, IF failing THEN 16 ELSE 0, <<>>)
    IN IF parsed = 0 THEN Call("ioctl_EVIOCGRAB", args, FALSE, <<>>, {}, ParseFailed)
       ELSE IF ret # 0
            THEN Call("ioctl_EVIOCGRAB", args, TRUE, <<c>>, {}, IOErrorFromErrno(c.errno))
            ELSE Call("ioctl_EVIOCGRAB", args, TRUE, <<c>>, {}, Value(None))

\* ioctl_EVIOCGEFFECTS, lines 318-332
ioctl_EVIOCGEFFECTS_impl(args, d, failing, stack) ==
    LET parsed == PyArg_ParseTuple(args, 1)
        ret == IF failing THEN -1 ELSE 0
        n_effects == IF failing THEN stack ELSE d.n_effects
        c == Syscall("EVIOCGEFFECTS", 0, ret, IF failing THEN ENODEV ELSE 0, n_effects)
    IN IF parsed = 0 THEN Call("ioctl_EVIOCGEFFECTS", args, FALSE, <<>>, {}, ParseFailed)
       ELSE IF ret # 0
            THEN Call("ioctl_EVIOCGEFFECTS", args, TRUE, <<c>>, {}, IOErrorFromErrno(c.errno))
            ELSE Call("ioctl_EVIOCGEFFECTS", args, TRUE, <<c>>, {}, Value(n_effects))

---------------------------------------------------------------------------
(* Force feedback, lines 334-471.                                          *)

\* the effect with the replay delay stored as the trigger interval too
BuildEffectTriggered(v) ==
    [ id |-> S16(v[10]), type |-> U16(v[1]),
      trigger |-> [button |-> 0, interval |-> U16(v[4])],
      replay |-> [length |-> U16(v[3]), delay |-> U16(v[4])],
      direction |-> U16(v[2]),
      level |-> S16(v[5]),
      envelope |-> [attack_length |-> U16(v[7]), attack_level |-> U16(v[6]),
                    fade_length |-> U16(v[9]), fade_level |-> U16(v[8])] ]

\* struct ff_effect as ioctl_EVIOCSFF fills it, lines 352-366: memset to 0,
\* then each field assigned from an int (the fields are 16 bits wide, id
\* and constant.level signed).  v holds the ints parsed on line 345 after
\* fd: fxtype, direction, replay_length, replay_delay, constant_level,
\* attack_level, attack_length, fade_level, fade_length, fxid.
BuildEffect(v) ==
    [ id |-> S16(v[10]), type |-> U16(v[1]),
      trigger |-> [button |-> 0, interval |-> 0],
      replay |-> [length |-> U16(v[3]), delay |-> U16(v[4])],
      direction |-> U16(v[2]),
      level |-> S16(v[5]),
      envelope |-> [attack_length |-> U16(v[7]), attack_level |-> U16(v[6]),
                    fade_length |-> U16(v[9]), fade_level |-> U16(v[8])] ]

\* the ints PyArg_ParseTuple stored after fd
ParsedInts(args) == [i \in 1..(Len(args) - 1) |-> args[i + 1].v]

\* the kernel's slots for uploaded effects
EffectIds == 0..(MaxEffects - 1)

\* ioctl(fd, EVIOCSFF, &effect): id -1 takes the lowest free slot, an id in
\* use is updated in place, any other id is refused; the id is written back
KernelSFF(ids, effect, failing) ==
    IF failing THEN [ret |-> -1, errno |-> ENODEV, id |-> effect.id, ids |-> ids]
    ELSE IF effect.id = -1
         THEN IF EffectIds \ ids = {}
              THEN [ret |-> -1, errno |-> 28, id |-> effect.id, ids |-> ids]
              ELSE LET slot == CHOOSE i \in EffectIds \ ids :
                                   \A j \in EffectIds \ ids : i <= j
                   IN [ret |-> 0, errno |-> 0, id |-> slot, ids |-> ids \cup {slot}]
         ELSE IF effect.id \in ids
              THEN [ret |-> 0, errno |-> 0, id |-> effect.id, ids |-> ids]
              ELSE [ret |-> -1, errno |-> EINVAL, id |-> effect.id, ids |-> ids]

\* ioctl(fd, EVIOCRMFF, arg): the kernel takes the argument itself as the id
KernelRMFF(ids, arg, failing) ==
    IF failing \/ arg \notin ids
    THEN [ret |-> -1, errno |-> IF failing THEN ENODEV ELSE EINVAL, ids |-> ids]
    ELSE [ret |-> 0, errno |-> 0, ids |-> ids \ {arg}]

\* where a local int of a handler may live: the value of &effect_id as the
\* kernel casts it to int
StackAddrs == {2147475232, -1073746016}

\* ioctl_EVIOCSFF, lines 334-379
ioctl_EVIOCSFF_impl(args, ids, failing) ==
    LET parsed == PyArg_ParseTuple(args, 11)
        effect == BuildEffect(ParsedInts(args))
        k == KernelSFF(ids, effect, failing)
        c == Syscall("EVIOCSFF", effect, k.ret, k.errno, k.id)
        effect_id == k.id
    IN IF parsed = 0 THEN Call("ioctl_EVIOCSFF", args, FALSE, <<>>, {}, ParseFailed)
       ELSE IF k.ret # 0
            THEN Call("ioctl_EVIOCSFF", args, TRUE, <<c>>, {}, IOErrorFromErrno(k.errno))
            ELSE Call("ioctl_EVIOCSFF", args, TRUE, <<c>>, {}, Value(effect_id))

\* the kernel's slots after ioctl_EVIOCSFF
ioctl_EVIOCSFF_ids(args, ids, failing) ==
    IF PyArg_ParseTuple(args, 11) = 0 THEN ids
    ELSE KernelSFF(ids, BuildEffect(ParsedInts(args)), failing).ids

\* if (ret != 0), line 391
RemoveFailed(ret) == ret # 0

\* ioctl_EVIOCRMFF, lines 381-398: the third argument of ioctl is
\* &effect_id, the address of the local
ioctl_EVIOCRMFF_impl(args, ids, failing, addr) ==
    LET parsed == PyArg_ParseTuple(args, 2)
        k == KernelRMFF(ids, addr, failing)
        c == Syscall("EVIOCRMFF", [ptr |-> addr, pointee |-> args[2].v],
                     k.ret, k.errno, <<>>)
    IN IF parsed = 0 THEN Call("ioctl_EVIOCRMFF", args, FALSE, <<>>, {}, ParseFailed)
       ELSE IF RemoveFailed(k.ret)
            THEN Call("ioctl_EVIOCRMFF", args, TRUE, <<c>>, {}, IOErrorFromErrno(k.errno))
            ELSE Call("ioctl_EVIOCRMFF", args, TRUE, <<c>>, {}, Value(None))

\* the kernel's slots after ioctl_EVIOCRMFF
ioctl_EVIOCRMFF_ids(args, ids, failing, addr) ==
    IF PyArg_ParseTuple(args, 2) = 0 THEN ids ELSE KernelRMFF(ids, addr, failing).ids

\* write(fd, &ev, sizeof(ev)) of an EV_FF event whose time is not set
FFWrite(op, args, nargs, code, value, failing) ==
    LET parsed == PyArg_ParseTuple(args, nargs)
        ret == IF failing THEN -1 ELSE event_size
        c == Syscall("write", [type |-> EV_FF, code |-> U16(code), value |-> value],
                     ret, IF failing THEN ENODEV ELSE 0, <<>>)
    IN IF parsed = 0 THEN Call(op, args, FALSE, <<>>, {}, ParseFailed)
       ELSE IF ret = -1
            THEN Call(op, args, TRUE, <<c>>, {}, IOErrorFromErrno(c.errno))
            ELSE Call(op, args, TRUE, <<c>>, {}, Value(None))

\* set_FF_AUTOCENTER, lines 400-422
set_FF_AUTOCENTER_impl(args, failing) ==
    FFWrite("set_FF_AUTOCENTER", args, 2, FF_AUTOCENTER, args[2].v, failing)

\* set_FF_GAIN, lines 425-447
set_FF_GAIN_impl(args, failing) ==
    FFWrite("set_FF_GAIN", args, 2, FF_GAIN, args[2].v, failing)

\* play_FF_EFFECT, lines 449-471
play_FF_EFFECT_impl(args, failing) ==
    FFWrite("play_FF_EFFECT", args, 3, args[2].v, args[3].v, failing)

---------------------------------------------------------------------------
(* get_sw_led_snd, lines 478-513.                                          *)

\* for (i = ...; i < max; i++) if (test_bit(bytes, i)) append i
RECURSIVE StateLoop(_, _, _, _)
StateLoop(mem, max, i, res) ==
    IF ~(i < max) THEN res
    ELSE StateLoop(mem, max, i + 1, IF test_bit(mem, i) # 0 THEN Append(res, i) ELSE res)

get_sw_led_snd_impl(args, d, failing, adjacent) ==
    LET ret == PyArg_ParseTuple(args, 2)
        evtype == args[2].v
        max == IF evtype = EV_LED THEN LED_MAX
               ELSE IF evtype = EV_SW THEN SW_MAX ELSE SND_MAX
        size == (max + 7) \div 8
        state == IF evtype = EV_LED THEN d.led
                 ELSE IF evtype = EV_SW THEN d.sw ELSE d.snd
        req == IF evtype = EV_LED THEN "EVIOCGLED"
               ELSE IF evtype = EV_SW THEN "EVIOCGSW" ELSE "EVIOCGSND"
        bytes == IF failing THEN Zeros(size) ELSE BitsToUser(state, size)
        c == Syscall(req, size, IF failing THEN -1 ELSE size,
                     IF failing THEN ENODEV ELSE 0, bytes)
    IN IF ret = 0 THEN Call("get_sw_led_snd", args, FALSE, <<>>, {}, ParseFailed)
       ELSE IF evtype \notin {EV_LED, EV_SW, EV_SND}
            THEN Call("get_sw_led_snd", args, TRUE, <<>>, {}, Null("none", 0))
            ELSE Call("get_sw_led_snd", args, TRUE, <<c>>, {Probe("bytes", size, max - 1)},
                      Value(StateLoop(Region(bytes, adjacent), max, 0, <<>>)))

---------------------------------------------------------------------------
(* The calls Python can make, with the inputs each draws.                  *)

ArgsFd == {<<Fd>>} \cup Malformed

\* (fd, delay, period) for ioctl_EVIOCSREP
ArgsRep == {<<Fd, PyInt(250), PyInt(33)>>} \cup Malformed

\* (fd, flag) for ioctl_EVIOCGRAB
ArgsGrab == {<<Fd, PyInt(1)>>, <<Fd, PyInt(0)>>} \cup Malformed

\* (fd, magnitude) for set_FF_GAIN and set_FF_AUTOCENTER: in and out of range
ArgsMagnitude == {<<Fd, PyInt(65535)>>, <<Fd, PyInt(65536)>>} \cup Malformed

\* (fd, fxid, ntimes) for play_FF_EFFECT
ArgsPlay == {<<Fd, PyInt(0), PyInt(1)>>, <<Fd, PyInt(1), PyInt(0)>>} \cup Malformed

\* (fd, effect_id) for ioctl_EVIOCRMFF: slots and an id no upload returns
ArgsRemove == {<<Fd, PyInt(i)>> : i \in EffectIds \cup {MaxEffects + 5}} \cup Malformed

\* (fd, evtype) for get_sw_led_snd
ArgsState == {<<Fd, PyInt(t)>> : t \in {EV_LED, EV_SW, EV_SND, EV_KEY}} \cup Malformed

\* effect shapes: one whose values fit the 16-bit fields, one whose do not
EffectShapes ==
    { <<82, 16384, 1000, 0, 20000, 100, 10, 50, 20>>,
      <<82, 65537, 70000, -1, 40000, 65536, 0, -2, 131071>> }

\* (fd, type, direction, replay length and delay, level, attack level and
\* length, fade level and length, id) for ioctl_EVIOCSFF
ArgsUpload ==
    { <<Fd>> \o [i \in 1..9 |-> PyInt(shape[i])] \o <<PyInt(id)>> :
        shape \in EffectShapes, id \in {-1, MaxEffects + 5} \cup EffectIds }
    \cup Malformed

\* inputs of one capability query: the fault the kernel answers with, the
\* axis position, and the stack bytes after ev_bits and code_bits
CapInputs ==
    { <<"none", 0, 0, 0>>, <<"none", 77, 0, 0>>, <<"none", 0, 64, 0>>,
      <<"none", 0, 0, 64>>, <<"EVIOCGBIT0", 0, 0, 0>>, <<"EVIOCGBIT", 0, 0, 0>>,
      <<"EVIOCGABS", 77, 0, 0>> }

\* an (code, AxisInfo) entry with the live value field blanked
StripEntry(e, t) == IF t = EV_ABS THEN <<e[1], [e[2] EXCEPT ![1] = 0]>> ELSE e

\* a capability result with every AxisInfo's live value blanked
StripValue(ret) ==
    IF ret.kind # "value" THEN ret
    ELSE [ret EXCEPT !.val =
            [t \in DOMAIN ret.val |->
                [i \in DOMAIN ret.val[t] |-> StripEntry(ret.val[t][i], t)]]]

Kernel == <<dev, effects, charSigned>>

device_read ==
    \E args \in ArgsFd, p \in Pending, stack \in StackEvents :
        /\ last' = device_read_impl(args, p, stack)
        /\ UNCHANGED Kernel

device_read_many ==
    \E args \in ArgsFd, p \in Pending, stack \in StackEvents :
        /\ last' = device_read_many_impl(args, p, stack)
        /\ UNCHANGED Kernel

event_unpack ==
    \E args \in {<<PyStr>>} \cup Malformed :
        /\ last' = event_unpack_impl(args)
        /\ UNCHANGED Kernel

\* the call remembers the result of the call before it when that was a
\* capability query too, so that two queries of one device can be compared
ioctl_capabilities ==
    \E args \in ArgsFd, in \in CapInputs :
        /\ last' = [ioctl_capabilities_impl(args, dev, in[1], in[2], in[3], in[4])
                      EXCEPT !.fault = in[1],
                             !.prev = IF last.op = "ioctl_capabilities" /\ last.parsed
                                      THEN [set |-> TRUE, fault |-> last.fault,
                                            ret |-> StripValue(last.ret)]
                                      ELSE NoPrev]
        /\ UNCHANGED Kernel

ioctl_devinfo ==
    \E args \in ArgsFd, fault \in DevinfoFaults :
        /\ last' = [ioctl_devinfo_impl(args, dev, fault) EXCEPT !.fault = fault]
        /\ UNCHANGED Kernel

ioctl_EVIOCGREP ==
    \E args \in ArgsFd, failing \in BOOLEAN :
        /\ last' = ioctl_EVIOCGREP_impl(args, dev, failing)
        /\ UNCHANGED Kernel

ioctl_EVIOCSREP ==
    \E args \in ArgsRep, failing \in BOOLEAN :
        /\ last' = ioctl_EVIOCSREP_impl(args, failing)
        /\ UNCHANGED Kernel

ioctl_EVIOCGVERSION ==
    \E args \in ArgsFd, failing \in BOOLEAN, stack \in StackInts :
        /\ last' = ioctl_EVIOCGVERSION_impl(args, dev, failing, stack)
        /\ UNCHANGED Kernel

ioctl_EVIOCGRAB ==
    \E args \in ArgsGrab, failing \in BOOLEAN :
        /\ last' = ioctl_EVIOCGRAB_impl(args, failing)
        /\ UNCHANGED Kernel

ioctl_EVIOCGEFFECTS ==
    \E args \in ArgsFd, failing \in BOOLEAN, stack \in StackInts :
        /\ last' = ioctl_EVIOCGEFFECTS_impl(args, dev, failing, stack)
        /\ UNCHANGED Kernel

ioctl_EVIOCSFF ==
    \E args \in ArgsUpload, failing \in BOOLEAN :
        /\ last' = ioctl_EVIOCSFF_impl(args, effects, failing)
        /\ effects' = ioctl_EVIOCSFF_ids(args, effects, failing)
        /\ UNCHANGED <<dev, charSigned>>

ioctl_EVIOCRMFF ==
    \E args \in ArgsRemove, failing \in BOOLEAN, addr \in StackAddrs :
        /\ last' = ioctl_EVIOCRMFF_impl(args, effects, failing, addr)
        /\ effects' = ioctl_EVIOCRMFF_ids(args, effects, failing, addr)
        /\ UNCHANGED <<dev, charSigned>>

set_FF_AUTOCENTER ==
    \E args \in ArgsMagnitude, failing \in BOOLEAN :
        /\ last' = set_FF_AUTOCENTER_impl(args, failing)
        /\ UNCHANGED Kernel

set_FF_GAIN ==
    \E args \in ArgsMagnitude, failing \in BOOLEAN :
        /\ last' = set_FF_GAIN_impl(args, failing)
        /\ UNCHANGED Kernel

play_FF_EFFECT ==
    \E args \in ArgsPlay, failing \in BOOLEAN :
        /\ last' = play_FF_EFFECT_impl(args, failing)
        /\ UNCHANGED Kernel

get_sw_led_snd ==
    \E args \in ArgsState, failing \in BOOLEAN, adjacent \in StackBytes :
        /\ last' = get_sw_led_snd_impl(args, dev, failing, adjacent)
        /\ UNCHANGED Kernel

\* no call made yet
NoCall == Call("none", <<>>, TRUE, <<>>, {}, Value(None))

\* the module is loaded on a build whose plain char is signed (the Linux
\* x86 ABI), over either device, none of whose effect slots is in use
Init ==
    /\ dev \in Devices
    /\ effects = {}
    /\ charSigned = TRUE
    /\ last = NoCall

Next ==
    \/ device_read
    \/ device_read_many
    \/ event_unpack
    \/ ioctl_capabilities
    \/ ioctl_devinfo
    \/ ioctl_EVIOCGREP
    \/ ioctl_EVIOCSREP
    \/ ioctl_EVIOCGVERSION
    \/ ioctl_EVIOCGRAB
    \/ ioctl_EVIOCGEFFECTS
    \/ ioctl_EVIOCSFF
    \/ ioctl_EVIOCRMFF
    \/ set_FF_AUTOCENTER
    \/ set_FF_GAIN
    \/ play_FF_EFFECT
    \/ get_sw_led_snd

Spec == Init /\ [][Next]_vars

---------------------------------------------------------------------------
(* test_bit on its own: every byte value, both signednesses of char.       *)

\* bytes of the buffers longer than one byte
ProbeBytes == {0, 1, 5, 127, 128, 170, 255}

ProbeBuffers ==
    {<<b>> : b \in 0..255} \cup
    {q \in SeqsUpTo(ProbeBytes, MaxProbeLen) : Len(q) >= 2}

\* a buffer and an index with bit/8 inside the buffer, about to be probed
ProbeArgs ==
    { <<buf, bit>> : buf \in ProbeBuffers, bit \in 0..(8 * MaxProbeLen - 1) }

\* the call test_bit(buf, bit) on the arguments drawn
ProbeBit ==
    /\ last.op = "test_bit_args"
    /\ last' = Call("test_bit", last.args, TRUE, <<>>,
                    {Probe("bitmask", Len(last.args[1]), last.args[2])},
                    Value(test_bit(last.args[1], last.args[2])))
    /\ UNCHANGED Kernel

ProbeInit ==
    /\ dev \in Devices
    /\ effects = {}
    /\ charSigned \in BOOLEAN
    /\ \E a \in ProbeArgs :
          /\ a[2] \div 8 < Len(a[1])
          /\ last = Call("test_bit_args", a, TRUE, <<>>, {}, Value(None))

ProbeSpec == ProbeInit /\ [][ProbeBit]_vars

\* the event readers alone
ReadNext == device_read \/ device_read_many \/ event_unpack

ReadSpec == Init /\ [][ReadNext]_vars

\* the identity, control and force-feedback calls alone
ControlNext ==
    \/ ioctl_devinfo
    \/ ioctl_EVIOCGREP
    \/ ioctl_EVIOCSREP
    \/ ioctl_EVIOCGVERSION
    \/ ioctl_EVIOCGRAB
    \/ ioctl_EVIOCGEFFECTS
    \/ ioctl_EVIOCSFF
    \/ ioctl_EVIOCRMFF
    \/ set_FF_AUTOCENTER
    \/ set_FF_GAIN
    \/ play_FF_EFFECT
    \/ get_sw_led_snd

ControlSpec == Init /\ [][ControlNext]_vars

---------------------------------------------------------------------------
(* Properties.                                                             *)

IsIOError(ret, errno) == ret.kind = "NULL" /\ ret.exc = "IOError" /\ ret.errno = errno

IsValue(ret) == ret.kind = "value" /\ ret.exc = "none"

\* C1: device_read_many returns, for a read of nread >= 0 bytes, exactly the
\* first floor(nread / record size) records the descriptor delivered, in
\* arrival order, trailing bytes of a partial record dropped without a
\* fault (nread = 0 gives the empty list); it faults only when read
\* returns a negative value.
BatchReadWholeRecords ==
    (last.op = "device_read_many" /\ last.parsed) =>
        LET rd == last.calls[1]
        IN /\ rd.ret < 0 => IsIOError(last.ret, rd.errno)
           /\ rd.ret >= 0 =>
                /\ IsValue(last.ret)
                /\ Len(last.ret.val) * event_size <= rd.ret
                /\ rd.ret < (Len(last.ret.val) + 1) * event_size
                /\ \A i \in 1..Len(last.ret.val) :
                      last.ret.val[i] = <<rd.out[i].sec, rd.out[i].usec, rd.out[i].type,
                                          rd.out[i].code, rd.out[i].value>>

\* two whole records and three stray bytes were read, two records returned
BatchReadStrayWitness ==
    /\ last.op = "device_read_many" /\ last.parsed
    /\ last.calls[1].ret = 2 * event_size + 3
    /\ IsValue(last.ret) /\ Len(last.ret.val) = 2

\* C2: device_read never returns a decoded event tuple when read returned
\* fewer bytes than one record (0 .. record size - 1).
SingleReadShortNotDecoded ==
    (last.op = "device_read" /\ last.parsed
        /\ last.calls[1].ret \in 0..(event_size - 1))
    => last.ret.kind # "value"

\* C3: every test_bit call of the capability walk and of the LED/SW/SND
\* enumeration has index/8 < length(buffer).
ProbesWithinBuffer ==
    \A p \in last.probes : p.hi \div 8 < p.size

RECURSIVE SortedSeq(_)
SortedSeq(S) ==
    IF S = {} THEN <<>>
    ELSE LET m == CHOOSE x \in S : \A y \in S : x <= y
         IN <<m>> \o SortedSeq(S \ {m})

\* the EVIOCGABS call made for code c in the last call
AbsCallFor(c) ==
    CHOOSE k \in {last.calls[i] : i \in 1..Len(last.calls)} :
        k.req = "EVIOCGABS" /\ k.arg = c

\* C4: when the type-bitmask ioctl succeeds (and so does every later ioctl
\* of the walk on a type the device has), ioctl_capabilities returns a map whose
\* keys are exactly the types t < EV_MAX set in the kernel's type bitmask,
\* each with exactly the codes c < KEY_MAX set in that type's code bitmask,
\* ascending, once each; EV_ABS entries are (c, the six fields EVIOCGABS(c)
\* returned), other entries the bare code.
CapabilitiesMatchKernel ==
    (last.op = "ioctl_capabilities" /\ last.parsed /\ last.fault = "none") =>
        /\ IsValue(last.ret)
        /\ DOMAIN last.ret.val = {t \in dev.evbit : t < EV_MAX}
        /\ \A t \in DOMAIN last.ret.val :
              LET want == SortedSeq({c \in (IF t = 0 THEN dev.evbit ELSE dev.codes[t]) :
                                        c < KEY_MAX})
                  got == last.ret.val[t]
              IN /\ Len(got) = Len(want)
                 /\ \A i \in 1..Len(want) :
                       IF t = EV_ABS
                       THEN /\ got[i][1] = want[i]
                            /\ got[i][2] = PyAbsInfo(AbsCallFor(want[i]).out)
                            /\ AbsCallFor(want[i]).ret >= 0
                       ELSE got[i] = want[i]

\* the ioctls whose failure the layer is documented to tolerate
Tolerated(op, req) ==
    \/ op = "ioctl_devinfo" /\ req = "EVIOCGPHYS"
    \/ op = "ioctl_EVIOCGREP" /\ req = "EVIOCGREP"

\* C5: whenever a read, write or ioctl issued by an operation fails, the
\* operation faults with the OS error instead of returning a value, except
\* for the physical-path fetch of the identity query and autorepeat-get.
FailedCallsFault ==
    \A i \in 1..Len(last.calls) :
        (last.calls[i].ret < 0 /\ ~Tolerated(last.op, last.calls[i].req))
        => IsIOError(last.ret, last.calls[i].errno)

\* C6: ioctl_devinfo faults with the OS error when EVIOCGID or EVIOCGNAME
\* fails; when both succeed and EVIOCGPHYS fails it returns the identity
\* fields and the name as fetched, with the empty string as physical path.
IdentityQueryFaults ==
    (last.op = "ioctl_devinfo" /\ last.parsed) =>
        IF \E i \in 1..Len(last.calls) :
               last.calls[i].req \in {"EVIOCGID", "EVIOCGNAME"} /\ last.calls[i].ret < 0
        THEN IsIOError(last.ret, ENODEV)
        ELSE /\ IsValue(last.ret)
             /\ <<last.ret.val[1], last.ret.val[2], last.ret.val[3], last.ret.val[4]>> = dev.id
             /\ last.ret.val[5] = dev.name
             /\ last.calls[3].req = "EVIOCGPHYS"
             /\ last.calls[3].ret < 0 => last.ret.val[6] = <<>>
             /\ last.calls[3].ret >= 0 => last.ret.val[6] = dev.phys

\* the identity query returned although the physical-path fetch failed
IdentityWithoutPhysWitness ==
    /\ last.op = "ioctl_devinfo" /\ last.parsed /\ IsValue(last.ret)
    /\ Len(last.calls) = 3 /\ last.calls[3].ret < 0
    /\ last.ret.val[5] # <<>> /\ last.ret.val[6] = <<>>

\* C7: when argument parsing fails no read, write or ioctl is made and an
\* error is reported; get_sw_led_snd with a tag other than EV_LED, EV_SW,
\* EV_SND makes no ioctl and reports an error that is not an I/O error.
UsageFaultsRejected ==
    /\ ~last.parsed =>
          last.calls = <<>> /\ last.ret.kind = "NULL" /\ last.ret.exc # "none"
    /\ (last.op = "get_sw_led_snd" /\ last.parsed
            /\ last.args[2].v \notin {EV_LED, EV_SW, EV_SND}) =>
          /\ last.calls = <<>>
          /\ last.ret.kind = "NULL"
          /\ last.ret.exc \notin {"none", "IOError"}

\* what C8 says of upload results and of remove
UploadAndRemoveOutcomes ==
    /\ (last.op = "ioctl_EVIOCSFF" /\ last.parsed) =>
          LET c == last.calls[1]
          IN /\ c.ret = 0 =>
                  /\ IsValue(last.ret) /\ last.ret.val = c.out
                  /\ last.args[11].v = -1 => last.ret.val >= 0
             /\ c.ret # 0 => IsIOError(last.ret, c.errno)
             /\ c.arg.trigger = [button |-> 0, interval |-> 0]
    /\ (last.op = "ioctl_EVIOCRMFF" /\ last.parsed /\ last.calls[1].ret # 0) =>
          IsIOError(last.ret, last.calls[1].errno)

\* the values ioctl_EVIOCSFF was called with, in the order of the fields of
\* UploadedFields
CallerFields ==
    <<last.args[2].v, last.args[3].v, last.args[4].v, last.args[5].v, last.args[6].v,
      last.args[7].v, last.args[8].v, last.args[9].v, last.args[10].v>>

\* type, direction, replay length and delay, constant level, envelope
\* attack level and length, fade level and length of the uploaded structure
UploadedFields ==
    LET e == last.calls[1].arg
    IN <<e.type, e.direction, e.replay.length, e.replay.delay, e.level,
         e.envelope.attack_level, e.envelope.attack_length,
         e.envelope.fade_level, e.envelope.fade_length>>

\* C8 as stated: an upload with id -1 that succeeds returns the
\* non-negative id the kernel wrote, a failed upload faults with the OS
\* error, the uploaded structure has trigger button and interval 0 and
\* carries the caller's type, direction, replay and envelope values, and a
\* remove whose ioctl fails faults.
EffectCarriesCallerValues ==
    /\ UploadAndRemoveOutcomes
    /\ (last.op = "ioctl_EVIOCSFF" /\ last.parsed) => UploadedFields = CallerFields

\* C8 amended: as stated, except that the uploaded structure carries the
\* caller's values reduced to its 16-bit fields (constant level to a signed
\* one): each is congruent to the caller's value modulo 2^16 and in the
\* field's range, so equal to it whenever the caller's value fits.
EffectCarriesTruncatedValues ==
    /\ UploadAndRemoveOutcomes
    /\ (last.op = "ioctl_EVIOCSFF" /\ last.parsed) =>
          \A i \in 1..9 :
              /\ (UploadedFields[i] - CallerFields[i]) % 65536 = 0
              /\ IF i = 5 THEN UploadedFields[i] \in -32768..32767
                 ELSE UploadedFields[i] \in 0..65535

\* an upload with id -1 and a direction of 65537 succeeded: the kernel
\* assigned an id and the structure carried direction 1
UploadTruncatedWitness ==
    /\ last.op = "ioctl_EVIOCSFF" /\ last.parsed /\ IsValue(last.ret)
    /\ last.args[11].v = -1 /\ last.ret.val >= 0 /\ last.ret.val \in effects
    /\ last.args[3].v = 65537 /\ last.calls[1].arg.direction = 1

\* C9: two capability queries of one device in one state (same kernel
\* answers) return the same result, the live value field of AxisInfo aside.
CapabilitiesDeterministic ==
    (last.op = "ioctl_capabilities" /\ last.parsed /\ last.prev.set
        /\ last.prev.fault = last.fault)
    => StripValue(last.ret) = last.prev.ret

\* C10: for a buffer b and an index i with i/8 < length(b), test_bit(b, i)
\* is non-zero exactly when bit (i mod 8) of byte b[i div 8] is set,
\* whatever the byte (top bit included) and whether plain char is signed.
ProbeReadsTheBit ==
    last.op = "test_bit" =>
        LET b == last.args[1]
            i == last.args[2]
        IN (last.ret.val # 0) <=> ((b[i \div 8 + 1] \div (2 ^ (i % 8))) % 2 = 1)

\* bit 7 of the byte 128 was probed where plain char is signed, and found
ProbeTopBitWitness ==
    /\ last.op = "test_bit" /\ charSigned
    /\ last.args[1] = <<5, 128>> /\ last.args[2] = 15
    /\ last.ret.val # 0

====
